---------------------------- MODULE Spec2Model ----------------------------
(***************************************************************************)
(* A model of easycpp/stubs.py: generate_stubs walks the lines of a C++    *)
(* source text, matches each line against four regular expressions and     *)
(* appends Python stub declarations to a string, tracking a brace-driven   *)
(* indentation counter.                                                    *)
(*                                                                         *)
(* Python strings are modelled as sequences of one-character strings, so   *)
(* that the regular expressions, str.split, str.strip, str.lstrip and      *)
(* str.replace are computed character by character as the interpreter     *)
(* computes them.                                                          *)
(***************************************************************************)
EXTENDS Integers, Sequences, FiniteSets

VARIABLES
    code,           \* the text read from the source file (stubs.py:100)
    classes,        \* the names found by the pre-scan (stubs.py:105)
    lineNo,         \* index of the line the for loop is at (stubs.py:107)
    current_level,  \* the indentation counter (stubs.py:103)
    stubs_string,   \* the text built so far (stubs.py:102)
    stubs_file,     \* what has been written to the stubs path (stubs.py:134)
    pc,             \* "loop", "done", "failed"; "resolve", "resolved"
    string,         \* argument of a direct call of _get_name
    type_           \* result of a direct call of _get_name

vars == <<code, classes, lineNo, current_level, stubs_string, stubs_file, pc,
          string, type_>>

---------------------------------------------------------------------------
(* Bounds of the model. *)

\* the most lines a source text has
MaxLines == 2

\* the most entries the class list has when _get_name is called directly
MaxClasses == 2

---------------------------------------------------------------------------
(* Character classes of Python's re module, restricted to ASCII. *)

Letters ==
    { "a", "b", "c", "d", "e", "f", "g", "h", "i", "j", "k", "l", "m",
      "n", "o", "p", "q", "r", "s", "t", "u", "v", "w", "x", "y", "z",
      "A", "B", "C", "D", "E", "F", "G", "H", "I", "J", "K", "L", "M",
      "N", "O", "P", "Q", "R", "S", "T", "U", "V", "W", "X", "Y", "Z" }

Digits == { "0", "1", "2", "3", "4", "5", "6", "7", "8", "9" }

\* [\w\d], [\w_] and [\w\d_] all denote \w
WordChars == Letters \cup Digits \cup { "_" }

\* \s, and so [\s\n\t] and [\s\t\n]
SpaceChars == { " ", "\t", "\n", "\r", "\f" }

\* [\w\d*\s\[\]] of _FUNCTION_REGEX: no comma, no ampersand
ParamChars == WordChars \cup SpaceChars \cup { "*", "[", "]" }

\* [*&] of _POINTER_OR_ADDRESS, _VAR_REGEX and _ARRAY_REGEX
PointerChars == { "*", "&" }

---------------------------------------------------------------------------
(* Python's str operations. *)

Min(S) == CHOOSE x \in S : \A y \in S : x <= y

\* ' ' * n
Spaces(n) == [i \in 1..n |-> " "]

\* s[a-1:] for a 1-based index a
From(s, a) == SubSeq(s, a, Len(s))

\* s.startswith(lit, i-1) for a 1-based index i
IsAt(s, i, lit) ==
    /\ i + Len(lit) - 1 <= Len(s)
    /\ SubSeq(s, i, i + Len(lit) - 1) = lit

\* The index of the last character of the longest run of characters of C
\* that starts at index i of s; i - 1 when that run is empty.  A greedy
\* repetition X* or X+ over a class whose continuation cannot start with a
\* character of the class ends exactly there.
RECURSIVE SpanEnd(_, _, _)
SpanEnd(s, i, C) ==
    IF i <= Len(s) /\ s[i] \in C THEN SpanEnd(s, i + 1, C) ELSE i - 1

\* s.replace(old, new): non-overlapping occurrences, left to right
RECURSIVE Replace(_, _, _)
Replace(s, old, new) ==
    IF Len(s) < Len(old) THEN s
    ELSE IF IsAt(s, 1, old)
         THEN new \o Replace(From(s, Len(old) + 1), old, new)
         ELSE <<s[1]>> \o Replace(Tail(s), old, new)

\* s.split(sep) for a one-character sep: always at least one piece
RECURSIVE Split(_, _)
Split(s, sep) ==
    LET hits == { i \in 1..Len(s) : s[i] = sep }
    IN  IF hits = {} THEN <<s>>
        ELSE <<SubSeq(s, 1, Min(hits) - 1)>> \o Split(From(s, Min(hits) + 1), sep)

\* s.lstrip(chars): chars is a SET of characters, not a prefix
RECURSIVE LStrip(_, _)
LStrip(s, chars) ==
    IF s # <<>> /\ s[1] \in chars THEN LStrip(Tail(s), chars) ELSE s

RECURSIVE RStrip(_, _)
RStrip(s, chars) ==
    IF s # <<>> /\ s[Len(s)] \in chars
    THEN RStrip(SubSeq(s, 1, Len(s) - 1), chars)
    ELSE s

\* s.strip()
Strip(s) == RStrip(LStrip(s, SpaceChars), SpaceChars)

\* the set of characters of a string
CharsOf(s) == { s[i] : i \in 1..Len(s) }

\* _POINTER_OR_ADDRESS.sub('', s)
POINTER_OR_ADDRESS_sub(s) == SelectSeq(s, LAMBDA c : c \notin PointerChars)

---------------------------------------------------------------------------
(* The compiled patterns.  A match is a record; None is the failed match.  *)
(* Every repetition of these patterns runs over a character class that its *)
(* continuation excludes, so backtracking never finds a second way to      *)
(* match from a given start and search() returns the match at the least    *)
(* start index.                                                            *)

None == [matched |-> FALSE]

\* ([\w\d]+) ([\w_]+)(\([...]+\)) matched at index s, for a parameter
\* character class [...] that holds neither parenthesis
SignatureAt(line, s, chars) ==
    LET e1 == SpanEnd(line, s, WordChars)
        e2 == SpanEnd(line, e1 + 2, WordChars)
        e3 == SpanEnd(line, e2 + 2, chars)
    IN  IF /\ e1 >= s
           /\ IsAt(line, e1 + 1, <<" ">>)
           /\ e2 >= e1 + 2
           /\ IsAt(line, e2 + 1, <<"(">>)
           /\ e3 >= e2 + 2
           /\ IsAt(line, e3 + 1, <<")">>)
        THEN [matched |-> TRUE,
              group1 |-> SubSeq(line, s, e1),
              group2 |-> SubSeq(line, e1 + 2, e2),
              group3 |-> SubSeq(line, e2 + 1, e3 + 1)]
        ELSE None

\* _FUNCTION_REGEX matched at index s:  ([\w\d]+) ([\w_]+)(\([\w\d*\s\[\]]+\))
FunctionMatchAt(line, s) == SignatureAt(line, s, ParamChars)

\* _FUNCTION_REGEX.search(line)
FUNCTION_REGEX_search(line) ==
    LET hits == { s \in 1..Len(line) : FunctionMatchAt(line, s).matched }
    IN  IF hits = {} THEN None ELSE FunctionMatchAt(line, Min(hits))

\* _CLASS_REGEX matched at index s:  class[\s\n\t]*([\w\d_]+)
ClassMatchAt(line, s) ==
    LET w == SpanEnd(line, s + 5, SpaceChars)
        e == SpanEnd(line, w + 1, WordChars)
    \* "class"
    IN  IF IsAt(line, s, <<"c", "l", "a", "s", "s">>) /\ e >= w + 1
        THEN [matched |-> TRUE, group1 |-> SubSeq(line, w + 1, e)]
        ELSE None

\* _CLASS_REGEX.search(line)
CLASS_REGEX_search(line) ==
    LET hits == { s \in 1..Len(line) : ClassMatchAt(line, s).matched }
    IN  IF hits = {} THEN None ELSE ClassMatchAt(line, Min(hits))

\* _GET_CLASSES_REGEX matched at index s:
\*     class[\s\n\t]*([\w\d_]+)[\s\n\t]*\{[.\n]*
\* (inside a character class the dot is a literal dot)
GetClassesMatchAt(text, s) ==
    LET w1 == SpanEnd(text, s + 5, SpaceChars)
        e  == SpanEnd(text, w1 + 1, WordChars)
        w2 == SpanEnd(text, e + 1, SpaceChars)
    \* "class"
    IN  IF /\ IsAt(text, s, <<"c", "l", "a", "s", "s">>)
           /\ e >= w1 + 1
           /\ IsAt(text, w2 + 1, <<"{">>)
        THEN [matched |-> TRUE,
              group1 |-> SubSeq(text, w1 + 1, e),
              end |-> SpanEnd(text, w2 + 2, { ".", "\n" })]
        ELSE None

\* _GET_CLASSES_REGEX.findall(text), scanning from index pos: the group of
\* every non-overlapping match, left to right
RECURSIVE GetClassesFindallFrom(_, _)
GetClassesFindallFrom(text, pos) ==
    IF pos > Len(text) THEN <<>>
    ELSE LET m == GetClassesMatchAt(text, pos)
         IN  IF m.matched
             THEN <<m.group1>> \o GetClassesFindallFrom(text, m.end + 1)
             ELSE GetClassesFindallFrom(text, pos + 1)

GET_CLASSES_REGEX_findall(text) == GetClassesFindallFrom(text, 1)

\* _VAR_REGEX matched at index s:  ([\w\d_]+)\s+[*&]*([\w\d_]+);
VarMatchAt(line, s) ==
    LET e1 == SpanEnd(line, s, WordChars)
        w  == SpanEnd(line, e1 + 1, SpaceChars)
        p  == SpanEnd(line, w + 1, PointerChars)
        e2 == SpanEnd(line, p + 1, WordChars)
    IN  IF /\ e1 >= s
           /\ w >= e1 + 1
           /\ e2 >= p + 1
           /\ IsAt(line, e2 + 1, <<";">>)
        THEN [matched |-> TRUE,
              group1 |-> SubSeq(line, s, e1),
              group2 |-> SubSeq(line, p + 1, e2)]
        ELSE None

\* _VAR_REGEX.search(line)
VAR_REGEX_search(line) ==
    LET hits == { s \in 1..Len(line) : VarMatchAt(line, s).matched }
    IN  IF hits = {} THEN None ELSE VarMatchAt(line, Min(hits))

\* _ARRAY_REGEX matched at index s:
\*     ([\w\d_]+)\s+[*&]*([\w\d_]+)[\s\t\n]*\[[\s\t]*.*[\s\t]*]
\* After the opening bracket the tail [\s\t]*.*[\s\t]*] matches exactly
\* when a closing bracket follows with no newline before it.
ArrayMatchAt(line, s) ==
    LET e1 == SpanEnd(line, s, WordChars)
        w  == SpanEnd(line, e1 + 1, SpaceChars)
        p  == SpanEnd(line, w + 1, PointerChars)
        e2 == SpanEnd(line, p + 1, WordChars)
        w2 == SpanEnd(line, e2 + 1, SpaceChars)
        b  == SpanEnd(line, w2 + 2, SpaceChars)
    IN  IF /\ e1 >= s
           /\ w >= e1 + 1
           /\ e2 >= p + 1
           /\ IsAt(line, w2 + 1, <<"[">>)
           /\ \E j \in (w2 + 2)..Len(line) :
                 /\ line[j] = "]"
                 /\ \A k \in (b + 1)..(j - 1) :
                       line[k] # "\n" \/ \A q \in k..(j - 1) : line[q] \in SpaceChars
        THEN [matched |-> TRUE,
              group1 |-> SubSeq(line, s, e1),
              group2 |-> SubSeq(line, p + 1, e2)]
        ELSE None

\* _ARRAY_REGEX.search(line)
ARRAY_REGEX_search(line) ==
    LET hits == { s \in 1..Len(line) : ArrayMatchAt(line, s).matched }
    IN  IF hits = {} THEN None ELSE ArrayMatchAt(line, Min(hits))

---------------------------------------------------------------------------
(* The type resolver. *)

\* Python values a type name is computed from: None, a builtin type, a
\* str, and the module's _sentinel object
NoneObject == [py |-> "NoneType"]
TypeObject(name) == [py |-> "type", name |-> name]
StrObject(s) == [py |-> "str", value |-> s]
sentinel == [py |-> "object"]

\* str(obj)
\* "None"
Str(obj) == IF obj.py = "str" THEN obj.value ELSE <<"N", "o", "n", "e">>

\* the dictionary, as its sequence of (key, value) items
CTYPES_CONVERSIONS ==
    \* "void"
    << <<<<"v", "o", "i", "d">>, NoneObject>>,
       \* "bool", "bool"
       <<<<"b", "o", "o", "l">>, TypeObject(<<"b", "o", "o", "l">>)>>,
       \* "char", "str"
       <<<<"c", "h", "a", "r">>, TypeObject(<<"s", "t", "r">>)>>,
       \* "wchar_t", "str"
       <<<<"w", "c", "h", "a", "r", "_", "t">>, TypeObject(<<"s", "t", "r">>)>>,
       \* "short", "int"
       <<<<"s", "h", "o", "r", "t">>, TypeObject(<<"i", "n", "t">>)>>,
       <<<<"i", "n", "t">>, TypeObject(<<"i", "n", "t">>)>>,
       \* "long", "int"
       <<<<"l", "o", "n", "g">>, TypeObject(<<"i", "n", "t">>)>>,
       \* "__int64", "int"
       <<<<"_", "_", "i", "n", "t", "6", "4">>, TypeObject(<<"i", "n", "t">>)>>,
       \* "size_t", "int"
       <<<<"s", "i", "z", "e", "_", "t">>, TypeObject(<<"i", "n", "t">>)>>,
       \* "ssize_t", "int"
       <<<<"s", "s", "i", "z", "e", "_", "t">>, TypeObject(<<"i", "n", "t">>)>>,
       \* "float", "float"
       <<<<"f", "l", "o", "a", "t">>, TypeObject(<<"f", "l", "o", "a", "t">>)>>,
       \* "double", "float"
       <<<<"d", "o", "u", "b", "l", "e">>, TypeObject(<<"f", "l", "o", "a", "t">>)>> >>

\* d.get(key, default)
DictGet(d, key, default) ==
    LET hits == { i \in 1..Len(d) : d[i][1] = key }
    IN  IF hits = {} THEN default ELSE d[Min(hits)][2]

\* x in list
InList(x, list) == \E i \in 1..Len(list) : list[i] = x

\* Mutation of _get_name: the class list is consulted before the table
get_name_ClassesFirst(string_, classes_) ==
    IF InList(string_, classes_) THEN string_
    ELSE LET looked == DictGet(CTYPES_CONVERSIONS, string_, sentinel)
         \* "typing.Any"
         IN  IF looked = sentinel THEN <<"t", "y", "p", "i", "n", "g", ".", "A", "n", "y">>
             \* "None"
             ELSE IF looked.py = "type" THEN looked.name ELSE <<"N", "o", "n", "e">>

\* _get_name(string, classes)
_get_name(string_, classes_) ==
    LET looked == DictGet(CTYPES_CONVERSIONS, string_, sentinel)
        found  == IF looked = sentinel
                  THEN IF InList(string_, classes_)
                       THEN StrObject(string_)
                       \* "typing.Any"
                       ELSE StrObject(<<"t", "y", "p", "i", "n", "g", ".", "A", "n", "y">>)
                  ELSE looked
        named  == IF found.py = "type" THEN StrObject(found.name) ELSE found
    IN  Str(named)

---------------------------------------------------------------------------
(* The text every stub file starts with. *)

BASE_STRING ==
    \* "import typing\n\nT = typing.TypeVar('T')\n\n\nclass _MutableCollection(typing.Collection[T]):  # this is made to type arrays\n    def __getitem__(self, name: str) -> T: ...\n    def __setitem__(self, index: int, value: T) -> None: ...\n    def __delitem__(self, index: int) -> None: ...\n    \n# typing for C++ below\n\n"
    <<"i", "m", "p", "o", "r", "t", " ", "t", "y", "p", "i", "n", "g", "\n", "\n", "T",
      " ", "=", " ", "t", "y", "p", "i", "n", "g", ".", "T", "y", "p", "e", "V", "a",
      "r", "(", "'", "T", "'", ")", "\n", "\n", "\n", "c", "l", "a", "s", "s", " ", "_",
      "M", "u", "t", "a", "b", "l", "e", "C", "o", "l", "l", "e", "c", "t", "i", "o",
      "n", "(", "t", "y", "p", "i", "n", "g", ".", "C", "o", "l", "l", "e", "c", "t",
      "i", "o", "n", "[", "T", "]", ")", ":", " ", " ", "#", " ", "t", "h", "i", "s",
      " ", "i", "s", " ", "m", "a", "d", "e", " ", "t", "o", " ", "t", "y", "p", "e",
      " ", "a", "r", "r", "a", "y", "s", "\n", " ", " ", " ", " ", "d", "e", "f", " ",
      "_", "_", "g", "e", "t", "i", "t", "e", "m", "_", "_", "(", "s", "e", "l", "f",
      ",", " ", "n", "a", "m", "e", ":", " ", "s", "t", "r", ")", " ", "-", ">", " ",
      "T", ":", " ", ".", ".", ".", "\n", " ", " ", " ", " ", "d", "e", "f", " ", "_",
      "_", "s", "e", "t", "i", "t", "e", "m", "_", "_", "(", "s", "e", "l", "f", ",",
      " ", "i", "n", "d", "e", "x", ":", " ", "i", "n", "t", ",", " ", "v", "a", "l",
      "u", "e", ":", " ", "T", ")", " ", "-", ">", " ", "N", "o", "n", "e", ":", " ",
      ".", ".", ".", "\n", " ", " ", " ", " ", "d", "e", "f", " ", "_", "_", "d", "e",
      "l", "i", "t", "e", "m", "_", "_", "(", "s", "e", "l", "f", ",", " ", "i", "n",
      "d", "e", "x", ":", " ", "i", "n", "t", ")", " ", "-", ">", " ", "N", "o", "n",
      "e", ":", " ", ".", ".", ".", "\n", " ", " ", " ", " ", "\n", "#", " ", "t", "y",
      "p", "i", "n", "g", " ", "f", "o", "r", " ", "C", "+", "+", " ", "b", "e", "l",
      "o", "w", "\n", "\n">>

---------------------------------------------------------------------------
(* _get_function_annotations.  Its result is the returned string, or the  *)
(* ValueError the tuple unpacking of parameter.split(' ') raises.         *)

ValueError == [raised |-> TRUE]
Returned(s) == [raised |-> FALSE, value |-> s]

\* Mutation of ParameterAnnotation: a parameter that does not split into
\* two pieces is skipped instead of raising
ParameterAnnotation_Skip(parameter, classes_) ==
    LET pieces == Split(Replace(Strip(parameter), <<" ", " ">>, <<" ">>), " ")
    IN  IF Len(pieces) # 2 THEN Returned(<<>>)
        ELSE Returned(POINTER_OR_ADDRESS_sub(pieces[2]) \o <<":", " ">>
                      \o _get_name(POINTER_OR_ADDRESS_sub(pieces[1]), classes_))

\* one iteration of the loop over the parameters
ParameterAnnotation(parameter, classes_) ==
    LET pieces == Split(Replace(Strip(parameter), <<" ", " ">>, <<" ">>), " ")
    IN  IF Len(pieces) # 2 THEN ValueError
        ELSE Returned(POINTER_OR_ADDRESS_sub(pieces[2]) \o <<":", " ">>
                      \o _get_name(POINTER_OR_ADDRESS_sub(pieces[1]), classes_))

\* the loop over the parameters: the fragments, one after the other
RECURSIVE ParametersAnnotation(_, _)
ParametersAnnotation(parameters, classes_) ==
    IF parameters = <<>> THEN Returned(<<>>)
    ELSE LET first == ParameterAnnotation(Head(parameters), classes_)
             rest  == ParametersAnnotation(Tail(parameters), classes_)
         IN  IF first.raised \/ rest.raised THEN ValueError
             ELSE Returned(first.value \o rest.value)

\* function_match.group(1).lstrip('*').lstrip('unsigned ').lstrip('long ')
ReturnTypeString(group1) ==
    \* "unsigned ", "long "
    LStrip(LStrip(LStrip(group1, { "*" }), CharsOf(<<"u", "n", "s", "i", "g", "n", "e", "d", " ">>)), CharsOf(<<"l", "o", "n", "g", " ">>))

_get_function_annotations(function_match, classes_, level) ==
    LET name == function_match.group2
        parameters ==
            Split(Replace(Replace(function_match.group3, <<"(">>, <<>>), <<")">>, <<>>), ",")
        annotated == ParametersAnnotation(parameters, classes_)
        return_type == _get_name(ReturnTypeString(function_match.group1), classes_)
    IN  IF annotated.raised THEN ValueError
        \* "def ", "("
        ELSE Returned(Spaces(level) \o <<"d", "e", "f", " ">> \o name \o <<"(">> \o annotated.value
                      \* ") -> ", ": ...\n\n"
                      \o <<")", " ", "-", ">", " ">> \o return_type \o <<":", " ", ".", ".", ".", "\n", "\n">>)

---------------------------------------------------------------------------
(* The body of the loop of generate_stubs. *)

\* Mutation of ClassStub: the class block is appended only when an opening
\* brace is on the line
ClassStub_NeedsBrace(line, level) ==
    LET class_match == CLASS_REGEX_search(line)
    IN  IF class_match.matched /\ "{" \in CharsOf(line)
        \* "class ", ":\n"
        THEN Spaces(level) \o <<"c", "l", "a", "s", "s", " ">> \o class_match.group1 \o <<":", "\n">>
             \* "...\n"
             \o Spaces(level + 4) \o <<".", ".", ".", "\n">>
        ELSE <<>>

\* what a class match appends
ClassStub(line, level) ==
    LET class_match == CLASS_REGEX_search(line)
    IN  IF class_match.matched
        \* "class ", ":\n"
        THEN Spaces(level) \o <<"c", "l", "a", "s", "s", " ">> \o class_match.group1 \o <<":", "\n">>
             \* "...\n"
             \o Spaces(level + 4) \o <<".", ".", ".", "\n">>
        ELSE <<>>

\* what a function match appends, or the ValueError
FunctionStub(line, classes_, level) ==
    LET function_match == FUNCTION_REGEX_search(line)
    IN  IF function_match.matched
        THEN _get_function_annotations(function_match, classes_, level)
        ELSE Returned(<<>>)

\* what a variable match appends
VarStub(line, classes_, level) ==
    LET var_match == VAR_REGEX_search(line)
    IN  IF var_match.matched
        THEN Spaces(level) \o var_match.group2 \o <<":", " ">>
             \o _get_name(var_match.group1, classes_) \o <<"\n">>
        ELSE <<>>

\* what an array match appends
ArrayStub(line, classes_, level) ==
    LET array_match == ARRAY_REGEX_search(line)
    IN  IF array_match.matched
        \* ": _MutableCollection["
        THEN Spaces(level) \o array_match.group2 \o <<":", " ", "_", "M", "u", "t", "a", "b", "l", "e", "C", "o", "l", "l", "e", "c",
          "t", "i", "o", "n", "[">>
             \o _get_name(array_match.group1, classes_) \o <<"]", "\n">>
        ELSE <<>>

\* Mutation of NextLevel: the closing-brace test has no floor
NextLevel_NoFloor(line, level) ==
    LET function_match == FUNCTION_REGEX_search(line).matched
        opened == IF "{" \in CharsOf(line) /\ ~function_match
                  THEN level + 4 ELSE level
    IN  IF "}" \in CharsOf(line) /\ ~function_match
        THEN opened - 4 ELSE opened

\* Mutation of NextLevel: the brace tests do not look at the function match
NextLevel_FunctionBraces(line, level) ==
    LET opened == IF "{" \in CharsOf(line) THEN level + 4 ELSE level
    IN  IF "}" \in CharsOf(line) /\ opened >= 4 THEN opened - 4 ELSE opened

\* the counter after the two brace tests at the end of the loop body
NextLevel(line, level) ==
    LET function_match == FUNCTION_REGEX_search(line).matched
        opened == IF "{" \in CharsOf(line) /\ ~function_match
                  THEN level + 4 ELSE level
    IN  IF "}" \in CharsOf(line) /\ opened >= 4 /\ ~function_match
        THEN opened - 4 ELSE opened

\* Mutation of LineStubs: the brace tests run before the line is emitted
LineStubs_AfterBraces(line, classes_, level) ==
    ClassStub(line, NextLevel(line, level))
    \o FunctionStub(line, classes_, NextLevel(line, level)).value
    \o VarStub(line, classes_, NextLevel(line, level))
    \o ArrayStub(line, classes_, NextLevel(line, level))

\* Mutation of LineStubs: every line ends with a blank separator line
LineStubs_BlankLine(line, classes_, level) ==
    ClassStub(line, level)
    \o FunctionStub(line, classes_, level).value
    \o VarStub(line, classes_, level)
    \o ArrayStub(line, classes_, level)
    \o <<"\n">>

\* Mutation of LineStubs: the function match is appended before the class
\* match
LineStubs_FunctionFirst(line, classes_, level) ==
    FunctionStub(line, classes_, level).value
    \o ClassStub(line, level)
    \o VarStub(line, classes_, level)
    \o ArrayStub(line, classes_, level)

\* everything one line appends when nothing is raised
LineStubs(line, classes_, level) ==
    ClassStub(line, level)
    \o FunctionStub(line, classes_, level).value
    \o VarStub(line, classes_, level)
    \o ArrayStub(line, classes_, level)

---------------------------------------------------------------------------
(* The source texts the model reads. *)

SourceLines ==
    { <<>>,
      <<"{">>,
      <<"}">>,
      <<"{", "}">>,
      <<"{", "{">>,
      \* "int count;"
      <<"i", "n", "t", " ", "c", "o", "u", "n", "t", ";">>,
      \* "int values[10];"
      <<"i", "n", "t", " ", "v", "a", "l", "u", "e", "s", "[", "1", "0", "]", ";">>,
      \* "class Foo {"
      <<"c", "l", "a", "s", "s", " ", "F", "o", "o", " ", "{">>,
      \* "class Foo;"
      <<"c", "l", "a", "s", "s", " ", "F", "o", "o", ";">>,
      \* "class Human {"
      <<"c", "l", "a", "s", "s", " ", "H", "u", "m", "a", "n", " ", "{">>,
      \* "int hello(Human human)"
      <<"i", "n", "t", " ", "h", "e", "l", "l", "o", "(", "H", "u", "m", "a", "n", " ",
        "h", "u", "m", "a", "n", ")">>,
      \* "int add(int a, int b)"
      <<"i", "n", "t", " ", "a", "d", "d", "(", "i", "n", "t", " ", "a", ",", " ", "i",
        "n", "t", " ", "b", ")">>,
      \* "int classify(int a)"
      <<"i", "n", "t", " ", "c", "l", "a", "s", "s", "i", "f", "y", "(", "i", "n", "t",
        " ", "a", ")">>,
      \* "class Foo { int get(int a[]); int x;"
      <<"c", "l", "a", "s", "s", " ", "F", "o", "o", " ", "{", " ", "i", "n", "t", " ",
        "g", "e", "t", "(", "i", "n", "t", " ", "a", "[", "]", ")", ";", " ", "i", "n",
        "t", " ", "x", ";">>,
      \* "void run(int n) {"
      <<"v", "o", "i", "d", " ", "r", "u", "n", "(", "i", "n", "t", " ", "n", ")", " ",
        "{">>,
      \* "bool ok(char c) {}"
      <<"b", "o", "o", "l", " ", "o", "k", "(", "c", "h", "a", "r", " ", "c", ")", " ",
        "{", "}">>,
      \* "} double area(Foo *s)"
      <<"}", " ", "d", "o", "u", "b", "l", "e", " ", "a", "r", "e", "a", "(", "F", "o",
        "o", " ", "*", "s", ")">>,
      \* "int f(x)"
      <<"i", "n", "t", " ", "f", "(", "x", ")">>,
      \* "int g( )"
      <<"i", "n", "t", " ", "g", "(", " ", ")">>,
      \* "int h(unsigned int n)"
      <<"i", "n", "t", " ", "h", "(", "u", "n", "s", "i", "g", "n", "e", "d", " ", "i",
        "n", "t", " ", "n", ")">> }

\* '\n'.join(ls)
RECURSIVE Join(_)
Join(ls) ==
    IF Len(ls) = 0 THEN <<>>
    ELSE IF Len(ls) = 1 THEN ls[1]
    ELSE ls[1] \o <<"\n">> \o Join(Tail(ls))

SourceTexts ==
    { Join(ls) : ls \in UNION { [1..n -> SourceLines] : n \in 1..MaxLines } }

\* code.split('\n')
CodeLines == Split(code, "\n")

---------------------------------------------------------------------------
(* generate_stubs as a state machine: the state after the pre-scan, one   *)
(* step per iteration of the loop, and the final write.                   *)

Init ==
    /\ code \in SourceTexts
    /\ classes = GET_CLASSES_REGEX_findall(code)
    /\ lineNo = 1
    /\ current_level = 0
    /\ stubs_string = BASE_STRING
    /\ stubs_file = [written |-> FALSE]
    /\ pc = "loop"
    /\ string = <<>>
    /\ type_ = <<>>

\* one iteration of the loop that runs to its end
ProcessLine ==
    /\ pc = "loop"
    /\ lineNo <= Len(CodeLines)
    /\ ~FunctionStub(CodeLines[lineNo], classes, current_level).raised
    /\ stubs_string' = stubs_string \o LineStubs(CodeLines[lineNo], classes, current_level)
    /\ current_level' = NextLevel(CodeLines[lineNo], current_level)
    /\ lineNo' = lineNo + 1
    /\ UNCHANGED <<code, classes, stubs_file, pc, string, type_>>

\* one iteration in which _get_function_annotations raises: the exception
\* leaves generate_stubs, after the class match has been appended
ProcessLineRaises ==
    /\ pc = "loop"
    /\ lineNo <= Len(CodeLines)
    /\ FunctionStub(CodeLines[lineNo], classes, current_level).raised
    /\ stubs_string' = stubs_string \o ClassStub(CodeLines[lineNo], current_level)
    /\ pc' = "failed"
    /\ UNCHANGED <<code, classes, lineNo, current_level, stubs_file, string, type_>>

\* the write after the loop
WriteStubs ==
    /\ pc = "loop"
    /\ lineNo > Len(CodeLines)
    /\ stubs_file' = [written |-> TRUE, content |-> stubs_string]
    /\ pc' = "done"
    /\ UNCHANGED <<code, classes, lineNo, current_level, stubs_string, string, type_>>

Next == ProcessLine \/ ProcessLineRaises \/ WriteStubs

Spec == Init /\ [][Next]_vars

---------------------------------------------------------------------------
(* _get_name called on its own, on a type token and a class list. *)

\* the keys of the table, names of classes, and tokens that are neither
TypeTokens ==
    { CTYPES_CONVERSIONS[i][1] : i \in 1..Len(CTYPES_CONVERSIONS) }
    \* "Foo", "Human", "Bar", "t", "", "Int", "unsigned"
    \cup { <<"F", "o", "o">>, <<"H", "u", "m", "a", "n">>, <<"B", "a", "r">>, <<"t">>, <<>>, <<"I", "n", "t">>, <<"u", "n", "s", "i", "g", "n", "e", "d">> }

\* a class may carry the name of a table key: the pre-scan takes any word
\* "Foo", "Human", "char"
ClassNames == { <<"F", "o", "o">>, <<"H", "u", "m", "a", "n">>, <<"c", "h", "a", "r">> }

ClassLists == UNION { [1..n -> ClassNames] : n \in 0..MaxClasses }

InitResolver ==
    /\ string \in TypeTokens
    /\ classes \in ClassLists
    /\ type_ = <<>>
    /\ pc = "resolve"
    /\ code = <<>>
    /\ lineNo = 1
    /\ current_level = 0
    /\ stubs_string = <<>>
    /\ stubs_file = [written |-> FALSE]

ResolveName ==
    /\ pc = "resolve"
    /\ type_' = _get_name(string, classes)
    /\ pc' = "resolved"
    /\ UNCHANGED <<code, classes, lineNo, current_level, stubs_string,
                   stubs_file, string>>

NextResolver == ResolveName

SpecResolver == InitResolver /\ [][NextResolver]_vars

---------------------------------------------------------------------------
(* Vocabulary of the properties. *)

\* the loop is at a line
AtLine == pc = "loop" /\ lineNo <= Len(CodeLines)

\* the line the loop is at
Line == CodeLines[lineNo]

\* the step ran the loop body to its end
LineDone == AtLine /\ lineNo' = lineNo + 1

\* what the step appended to the output buffer
Appended == SubSeq(stubs_string', Len(stubs_string) + 1, Len(stubs_string'))

\* the lines of the appended text
AppendedLines == Split(Appended, "\n")

\* sub occurs in text
Contains(text, sub) == \E i \in 1..(Len(text) + 1) : IsAt(text, i, sub)

\* the number of leading spaces of a line of output
LeadingSpaces(seg) == SpanEnd(seg, 1, { " " })

\* a line of output without its indentation
Unindented(seg) == From(seg, LeadingSpaces(seg) + 1)

\* the kind of declaration a non-empty line of output belongs to
StubKind(seg) ==
    \* "def "
    IF IsAt(Unindented(seg), 1, <<"d", "e", "f", " ">>) THEN "function"
    \* "class ", "..."
    ELSE IF IsAt(Unindented(seg), 1, <<"c", "l", "a", "s", "s", " ">>) \/ Unindented(seg) = <<".", ".", ".">>
         THEN "class"
    \* ": _MutableCollection["
    ELSE IF Contains(seg, <<":", " ", "_", "M", "u", "t", "a", "b", "l", "e", "C", "o", "l", "l", "e", "c",
      "t", "i", "o", "n", "[">>) THEN "array"
    ELSE "variable"

\* the kinds of the non-empty lines of the appended text, in order
AppendedKinds ==
    LET kept == SelectSeq(AppendedLines, LAMBDA seg : seg # <<>>)
    IN  [k \in 1..Len(kept) |-> StubKind(kept[k])]

\* the patterns a line matches
MatchedKinds(line) ==
    { k \in { "function", "class", "variable", "array" } :
        \/ k = "function" /\ FUNCTION_REGEX_search(line).matched
        \/ k = "class" /\ CLASS_REGEX_search(line).matched
        \/ k = "variable" /\ VAR_REGEX_search(line).matched
        \/ k = "array" /\ ARRAY_REGEX_search(line).matched }

\* the kinds of a sequence follow the order given by a ranking
InOrder(kinds, rank) ==
    \A i \in 1..Len(kinds) : \A j \in i..Len(kinds) : rank[kinds[i]] <= rank[kinds[j]]

\* s without the prefix p, when it starts with p
RemovePrefix(s, p) == IF IsAt(s, 1, p) THEN From(s, Len(p) + 1) ELSE s

\* the space-separated tokens of a parameter
Tokens(parameter) == SelectSeq(Split(parameter, " "), LAMBDA t : t # <<>>)

\* the text between the parentheses of a signature, split on commas
ParametersOf(group3) == Split(SubSeq(group3, 2, Len(group3) - 1), ",")

---------------------------------------------------------------------------
(* C1  For a line that matches the function pattern the emitted return    *)
(* annotation is the resolved return token, the token having lost at most *)
(* one leading "*", then the prefix "unsigned ", then the prefix "long "; *)
(* the line "int hello(Human human)" with Human a known class emits       *)
(* exactly "def hello(human: Human) -> int: ..." and one blank line.      *)
(* The code strips character sets, not prefixes: the property fails.      *)

ClaimedReturnToken(group1) ==
    \* "*", "unsigned ", "long "
    RemovePrefix(RemovePrefix(RemovePrefix(group1, <<"*">>), <<"u", "n", "s", "i", "g", "n", "e", "d", " ">>), <<"l", "o", "n", "g", " ">>)

\* C1: every completed function line appends ") -> ", the resolved claimed
\* return token and ": ...", and "int hello(Human human)" with Human known
\* appends exactly the stub "def hello(human: Human) -> int: ..."
C1_ReturnAnnotation ==
    [][ (LineDone /\ FUNCTION_REGEX_search(Line).matched) =>
          /\ Contains(Appended,
                \* ") -> "
                <<")", " ", "-", ">", " ">>
                \o _get_name(ClaimedReturnToken(FUNCTION_REGEX_search(Line).group1),
                             classes)
                \* ": ...\n\n"
                \o <<":", " ", ".", ".", ".", "\n", "\n">>)
          \* "int hello(Human human)", "Human"
          /\ (Line = <<"i", "n", "t", " ", "h", "e", "l", "l", "o", "(", "H", "u", "m", "a", "n", " ",
            "h", "u", "m", "a", "n", ")">> /\ InList(<<"H", "u", "m", "a", "n">>, classes)) =>
                Appended = Spaces(current_level)
                           \* "def hello(human: Human) -> int: ...\n\n"
                           \o <<"d", "e", "f", " ", "h", "e", "l", "l", "o", "(", "h", "u", "m", "a", "n", ":",
                             " ", "H", "u", "m", "a", "n", ")", " ", "-", ">", " ", "i", "n", "t", ":", " ",
                             ".", ".", ".", "\n", "\n">>
      ]_vars

---------------------------------------------------------------------------
(* C2  The resolver is total and three-way, the table first: a key of the *)
(* table gives the table's name (void gives None), any other token that   *)
(* is a known class gives the token, any other token gives typing.Any;    *)
(* the call changes nothing but its result.                               *)

PrimitiveNames ==
    \* "void", "None", "bool", "bool", "char", "str"
    << <<<<"v", "o", "i", "d">>, <<"N", "o", "n", "e">>>>, <<<<"b", "o", "o", "l">>, <<"b", "o", "o", "l">>>>, <<<<"c", "h", "a", "r">>, <<"s", "t", "r">>>>,
       \* "wchar_t", "str", "short", "int", "int", "int"
       <<<<"w", "c", "h", "a", "r", "_", "t">>, <<"s", "t", "r">>>>, <<<<"s", "h", "o", "r", "t">>, <<"i", "n", "t">>>>, <<<<"i", "n", "t">>, <<"i", "n", "t">>>>,
       \* "long", "int", "__int64", "int", "size_t", "int"
       <<<<"l", "o", "n", "g">>, <<"i", "n", "t">>>>, <<<<"_", "_", "i", "n", "t", "6", "4">>, <<"i", "n", "t">>>>, <<<<"s", "i", "z", "e", "_", "t">>, <<"i", "n", "t">>>>,
       \* "ssize_t", "int", "float", "float", "double", "float"
       <<<<"s", "s", "i", "z", "e", "_", "t">>, <<"i", "n", "t">>>>, <<<<"f", "l", "o", "a", "t">>, <<"f", "l", "o", "a", "t">>>>, <<<<"d", "o", "u", "b", "l", "e">>, <<"f", "l", "o", "a", "t">>>> >>

ExpectedName(token, known) ==
    IF \E i \in 1..Len(PrimitiveNames) : PrimitiveNames[i][1] = token
    THEN PrimitiveNames[CHOOSE i \in 1..Len(PrimitiveNames) :
                            PrimitiveNames[i][1] = token][2]
    ELSE IF token \in known THEN token
    \* "typing.Any"
    ELSE <<"t", "y", "p", "i", "n", "g", ".", "A", "n", "y">>

\* C2: every call of the resolver ends, returns the name expected of the
\* token and the class list, and changes nothing else
C2_ResolverThreeWay ==
    [][ pc = "resolve" =>
          /\ pc' = "resolved"
          /\ type_' = ExpectedName(string, { classes[i] : i \in 1..Len(classes) })
          /\ UNCHANGED <<string, classes, code, lineNo, current_level,
                         stubs_string, stubs_file>>
      ]_vars

\* C2 witness: a table key that is also a known class, resolved by the table
C2_Witness ==
    /\ pc = "resolved"
    \* "char"
    /\ string = <<"c", "h", "a", "r">>
    \* "char"
    /\ InList(<<"c", "h", "a", "r">>, classes)
    /\ type_ = <<"s", "t", "r">>

---------------------------------------------------------------------------
(* C3  Every declaration a line emits is indented by the value the indent *)
(* counter had before that line's brace adjustment, and the class body    *)
(* placeholder "..." by 4 more; "int count;" is emitted with no indent at *)
(* level 0 and with 4 spaces at level 4.                                  *)

\* C3: every non-empty line a step appends has current_level leading
\* spaces, but the "..." under a class header, which has current_level + 4
C3_IndentOfEmitted ==
    [][ AtLine =>
          /\ \A k \in 1..Len(AppendedLines) :
                LET seg == AppendedLines[k]
                IN  IF seg = <<>> THEN TRUE
                    ELSE IF Unindented(seg) = <<".", ".", ".">>
                    THEN /\ k > 1
                         \* "class "
                         /\ IsAt(Unindented(AppendedLines[k - 1]), 1, <<"c", "l", "a", "s", "s", " ">>)
                         /\ LeadingSpaces(seg) = current_level + 4
                    ELSE LeadingSpaces(seg) = current_level
          \* "int count;"
          /\ Line = <<"i", "n", "t", " ", "c", "o", "u", "n", "t", ";">> =>
                \* "count: int\n"
                Appended = Spaces(current_level) \o <<"c", "o", "u", "n", "t", ":", " ", "i", "n", "t", "\n">>
      ]_vars

\* C3 witness: "int count;" after one unclosed "{" line, emitted with 4 spaces
C3_Witness ==
    /\ pc = "loop"
    /\ lineNo = 3
    \* "{", "int count;"
    /\ CodeLines = <<<<"{">>, <<"i", "n", "t", " ", "c", "o", "u", "n", "t", ";">>>>
    \* "    count: int\n"
    /\ stubs_string = BASE_STRING \o <<" ", " ", " ", " ", "c", "o", "u", "n", "t", ":", " ", "i", "n", "t", "\n">>

---------------------------------------------------------------------------
(* C4  The indent counter is always a non-negative multiple of 4: it      *)
(* starts at 0, a line moves it by at most 4 either way however many      *)
(* braces it holds, and a line with "}" never lowers it when it is below  *)
(* 4, so that surplus closing braces leave it at 0.                       *)

\* C4: the counter starts at 0, stays a non-negative multiple of 4, moves
\* by at most 4 a step, and is not lowered by a "}" met below 4
C4_IndentCounter ==
    /\ current_level = 0
    /\ [](current_level \in Nat /\ current_level % 4 = 0)
    /\ [][ /\ current_level' - current_level \in { -4, 0, 4 }
           /\ (AtLine /\ "}" \in CharsOf(Line) /\ current_level < 4) =>
                 current_level' >= current_level
           /\ (AtLine /\ "}" \in CharsOf(Line) /\ "{" \notin CharsOf(Line)
                      /\ current_level = 0) =>
                 current_level' = 0
         ]_vars

\* C4 witness: a closing brace met at level 0 left the counter at 0, and a line of
\* two opening braces then raised it by 4 only
C4_Witness ==
    /\ pc = "loop"
    /\ lineNo = 3
    /\ CodeLines = <<<<"}">>, <<"{", "{">>>>
    /\ current_level = 4

---------------------------------------------------------------------------
(* C5  A line that matches the function pattern leaves the indent counter *)
(* unchanged whatever braces it holds; only the other lines change it.    *)

\* C5: a step at a line that matches the function pattern keeps
\* current_level
C5_FunctionLineKeepsIndent ==
    [][ (AtLine /\ FUNCTION_REGEX_search(Line).matched) =>
          current_level' = current_level
      ]_vars

\* C5 witness: a function line with an opening brace processed at level 4
C5_Witness ==
    /\ pc = "loop"
    /\ lineNo = 3
    \* "{", "void run(int n) {"
    /\ CodeLines = <<<<"{">>, <<"v", "o", "i", "d", " ", "r", "u", "n", "(", "i", "n", "t", " ", "n", ")", " ",
      "{">>>>
    /\ current_level = 4

---------------------------------------------------------------------------
(* C6  A function line with a parameter that is not exactly a type token  *)
(* and a name is fatal: the invocation stops at that line, no later line  *)
(* is processed, and the output file is never written; the file is        *)
(* written only after every line has been processed.                      *)

MalformedFunctionLine(line) ==
    LET function_match == FUNCTION_REGEX_search(line)
    IN  /\ function_match.matched
        /\ \E i \in 1..Len(ParametersOf(function_match.group3)) :
              Len(Tokens(ParametersOf(function_match.group3)[i])) # 2

\* C6: a step at a malformed function line fails the invocation without
\* advancing, no step follows a failure, and the file is written only when
\* done, after all lines, none of them malformed
C6_MalformedIsFatal ==
    /\ [](stubs_file.written =>
             /\ pc = "done"
             /\ lineNo > Len(CodeLines)
             /\ \A i \in 1..Len(CodeLines) : ~MalformedFunctionLine(CodeLines[i]))
    /\ [](pc = "failed" => ~stubs_file.written)
    /\ [][ (AtLine /\ MalformedFunctionLine(Line)) =>
              /\ pc' = "failed"
              /\ lineNo' = lineNo
              /\ ~stubs_file'.written
         ]_vars
    /\ [][ pc # "failed" ]_vars

\* C6 witness: the first of two lines has a one-token parameter: the invocation has
\* failed there, the second line unprocessed and nothing written
C6_Witness ==
    /\ pc = "failed"
    /\ lineNo = 1
    \* "int f(x)", "int count;"
    /\ CodeLines = <<<<"i", "n", "t", " ", "f", "(", "x", ")">>, <<"i", "n", "t", " ", "c", "o", "u", "n", "t", ";">>>>
    /\ stubs_string = BASE_STRING
    /\ ~stubs_file.written

---------------------------------------------------------------------------
(* C7  A line that matches none of the four patterns leaves the output    *)
(* buffer unchanged and is no error; a text whose lines match nothing     *)
(* yields exactly the preamble, whatever braces it holds.                 *)

\* C7: a step at a line that matches no pattern keeps stubs_string and goes
\* on; when no line matches any pattern the file written is BASE_STRING
C7_UnmatchedLineIgnored ==
    /\ [][ (AtLine /\ MatchedKinds(Line) = {}) =>
              /\ stubs_string' = stubs_string
              /\ pc' = "loop"
              /\ lineNo' = lineNo + 1
         ]_vars
    /\ []((pc = "done" /\ \A i \in 1..Len(CodeLines) : MatchedKinds(CodeLines[i]) = {}) =>
             /\ stubs_file.written
             /\ stubs_file.content = BASE_STRING)

\* C7 witness: two brace-only lines written out as the preamble alone
C7_Witness ==
    /\ pc = "done"
    /\ CodeLines = <<<<"{", "{">>, <<"}">>>>
    /\ stubs_file.written
    /\ stubs_file.content = BASE_STRING

---------------------------------------------------------------------------
(* C8  A function declaration line with two or more comma-separated,      *)
(* well-formed "type name" parameters emits a function stub whose         *)
(* parameter list holds every "name: type" fragment, in source order,     *)
(* with nothing between them.  The function pattern admits no comma, so   *)
(* such a line emits no stub: the property fails.                         *)

\* the declaration <type> <name>(<parameters>) on a line, commas admitted
DeclarationOn(line) ==
    LET hits == { s \in 1..Len(line) :
                    SignatureAt(line, s, ParamChars \cup { "," }).matched }
    IN  IF hits = {} THEN None
        ELSE SignatureAt(line, Min(hits), ParamChars \cup { "," })

\* the "name: type" fragments of well-formed parameters, concatenated
RECURSIVE Fragments(_, _)
Fragments(parameters, known) ==
    IF parameters = <<>> THEN <<>>
    ELSE POINTER_OR_ADDRESS_sub(Tokens(Head(parameters))[2]) \o <<":", " ">>
         \o _get_name(POINTER_OR_ADDRESS_sub(Tokens(Head(parameters))[1]), known)
         \o Fragments(Tail(parameters), known)

\* C8: a completed line holding a declaration with two or more well-formed
\* parameters appends "def <name>(" with all the fragments and ") -> "
C8_AllParametersEmitted ==
    [][ (LineDone /\ DeclarationOn(Line).matched
           /\ Len(ParametersOf(DeclarationOn(Line).group3)) >= 2
           /\ \A i \in 1..Len(ParametersOf(DeclarationOn(Line).group3)) :
                 Len(Tokens(ParametersOf(DeclarationOn(Line).group3)[i])) = 2) =>
          Contains(Appended,
                   \* "def ", "("
                   <<"d", "e", "f", " ">> \o DeclarationOn(Line).group2 \o <<"(">>
                   \o Fragments(ParametersOf(DeclarationOn(Line).group3), classes)
                   \* ") -> "
                   \o <<")", " ", "-", ">", " ">>)
      ]_vars

---------------------------------------------------------------------------
(* C9  The four checks are not exclusive: every pattern a line matches    *)
(* appends its declaration, and the declarations of one line are appended *)
(* in a fixed order.  As stated, the order is function, class, variable,  *)
(* array; the code appends the class block before the function stub.      *)

ClaimedOrder ==
    [k \in { "function", "class", "variable", "array" } |->
        CASE k = "function" -> 1 [] k = "class" -> 2
          [] k = "variable" -> 3 [] k = "array" -> 4]

CodeOrder ==
    [k \in { "function", "class", "variable", "array" } |->
        CASE k = "class" -> 1 [] k = "function" -> 2
          [] k = "variable" -> 3 [] k = "array" -> 4]

\* C9 as stated: the kinds appended are the patterns matched, in the order
\* function, class, variable, array
C9_FunctionBeforeClass ==
    [][ LineDone =>
          /\ { AppendedKinds[k] : k \in 1..Len(AppendedKinds) } = MatchedKinds(Line)
          /\ InOrder(AppendedKinds, ClaimedOrder)
      ]_vars

\* C9 amended: the kinds appended are the patterns matched, in the order
\* class, function, variable, array
C9_ClassBeforeFunction ==
    [][ LineDone =>
          /\ { AppendedKinds[k] : k \in 1..Len(AppendedKinds) } = MatchedKinds(Line)
          /\ InOrder(AppendedKinds, CodeOrder)
      ]_vars

\* C9 witness: a line that matches all four patterns, its four declarations
\* appended
C9_Witness ==
    /\ pc = "loop"
    /\ lineNo = 2
    \* "class Foo { int get(int a[]); int x;"
    /\ CodeLines = <<<<"c", "l", "a", "s", "s", " ", "F", "o", "o", " ", "{", " ", "i", "n", "t", " ",
      "g", "e", "t", "(", "i", "n", "t", " ", "a", "[", "]", ")", ";", " ", "i", "n",
      "t", " ", "x", ";">>>>
    /\ stubs_string = BASE_STRING
          \* "class Foo:\n    ...\n"
          \o <<"c", "l", "a", "s", "s", " ", "F", "o", "o", ":", "\n", " ", " ", " ", " ", ".",
            ".", ".", "\n">>
          \* "def get(a[]: int) -> typing.Any: ...\n\n"
          \o <<"d", "e", "f", " ", "g", "e", "t", "(", "a", "[", "]", ":", " ", "i", "n", "t",
            ")", " ", "-", ">", " ", "t", "y", "p", "i", "n", "g", ".", "A", "n", "y", ":",
            " ", ".", ".", ".", "\n", "\n">>
          \* "x: int\n"
          \o <<"x", ":", " ", "i", "n", "t", "\n">>
          \* "a: _MutableCollection[int]\n"
          \o <<"a", ":", " ", "_", "M", "u", "t", "a", "b", "l", "e", "C", "o", "l", "l", "e",
            "c", "t", "i", "o", "n", "[", "i", "n", "t", "]", "\n">>

---------------------------------------------------------------------------
(* C10  As stated: a class stub is emitted for a line only when its       *)
(* "class <identifier>" is followed by an opening brace on the same or    *)
(* later text, so that every emitted class name is a known class.  The    *)
(* per-line class pattern asks for no brace: "class Foo;" emits the       *)
(* block too.                                                             *)

\* the step appended a class header
EmitsClass == \E k \in 1..Len(AppendedLines) :
                 \* "class "
                 IsAt(Unindented(AppendedLines[k]), 1, <<"c", "l", "a", "s", "s", " ">>)

\* the name of the class header the step appended
EmittedClassName ==
    LET k == CHOOSE k \in 1..Len(AppendedLines) :
                 \* "class "
                 IsAt(Unindented(AppendedLines[k]), 1, <<"c", "l", "a", "s", "s", " ">>)
        seg == Unindented(AppendedLines[k])
    IN  SubSeq(seg, 7, Len(seg) - 1)

\* an opening brace on the line the loop is at or on a later line
BraceFollows == \E i \in lineNo..Len(CodeLines) : "{" \in CharsOf(CodeLines[i])

\* the line holds "class", optional white space and a word character
HasClassIdentifier(line) ==
    \E s \in 1..Len(line) :
        \* "class"
        /\ IsAt(line, s, <<"c", "l", "a", "s", "s">>)
        /\ SpanEnd(line, s + 5, SpaceChars) + 1 <= Len(line)
        /\ line[SpanEnd(line, s + 5, SpaceChars) + 1] \in WordChars

\* C10 as stated: a step that appends a class header has an opening brace
\* on its line or a later one, and the class name is a known class
C10_ClassStubNeedsBrace ==
    [][ (AtLine /\ EmitsClass) =>
          /\ BraceFollows
          /\ InList(EmittedClassName, classes)
      ]_vars

\* C10 amended: the block is emitted for every line that holds
\* "class", optional white space and an identifier, brace or no brace
\* ("class Foo;" matches the variable pattern as well, with type "class")
C10_ClassStubPerLine ==
    [][ AtLine =>
          /\ EmitsClass <=> HasClassIdentifier(Line)
          /\ EmitsClass =>
                IsAt(Appended, 1,
                     \* "class ", ":\n"
                     Spaces(current_level) \o <<"c", "l", "a", "s", "s", " ">> \o EmittedClassName \o <<":", "\n">>
                     \* "...\n"
                     \o Spaces(current_level + 4) \o <<".", ".", ".", "\n">>)
          \* "class Foo {"
          /\ Line = <<"c", "l", "a", "s", "s", " ", "F", "o", "o", " ", "{">> =>
                \* "class Foo:\n"
                Appended = Spaces(current_level) \o <<"c", "l", "a", "s", "s", " ", "F", "o", "o", ":", "\n">>
                           \* "...\n"
                           \o Spaces(current_level + 4) \o <<".", ".", ".", "\n">>
          \* "class Foo;"
          /\ Line = <<"c", "l", "a", "s", "s", " ", "F", "o", "o", ";">> =>
                \* "class Foo:\n"
                Appended = Spaces(current_level) \o <<"c", "l", "a", "s", "s", " ", "F", "o", "o", ":", "\n">>
                           \* "...\n"
                           \o Spaces(current_level + 4) \o <<".", ".", ".", "\n">>
                           \* "Foo: typing.Any\n"
                           \o Spaces(current_level) \o <<"F", "o", "o", ":", " ", "t", "y", "p", "i", "n", "g", ".", "A", "n", "y", "\n">>
      ]_vars

\* C10 witness: a forward declaration alone: the block is emitted, Foo is no
\* known class
C10_Witness ==
    /\ pc = "loop"
    /\ lineNo = 2
    \* "class Foo;"
    /\ CodeLines = <<<<"c", "l", "a", "s", "s", " ", "F", "o", "o", ";">>>>
    /\ classes = <<>>
    \* "class Foo:\n    ...\n", "Foo: typing.Any\n"
    /\ stubs_string = BASE_STRING \o <<"c", "l", "a", "s", "s", " ", "F", "o", "o", ":", "\n", " ", " ", " ", " ", ".",
      ".", ".", "\n">> \o <<"F", "o", "o", ":", " ", "t", "y", "p", "i", "n", "g", ".", "A", "n", "y", "\n">>

=============================================================================
